---- MODULE Spec2Model ----
(***************************************************************************)
(* silentcmd: the switch controller (src/switch.rs, SwitchStatus) and the *)
(* action dispatcher thread it feeds through an mpsc channel, driven by   *)
(* the capture front ends (alsa_detect.rs, jack_plugin.rs).               *)
(*                                                                         *)
(* Time is counted in ticks of 1/TicksPerSec seconds (Instant values);    *)
(* levels and thresholds are whole decibel values.                        *)
(***************************************************************************)
EXTENDS Integers, Sequences, FiniteSets, TLC

\* ---------------------------------------------------------------- bounds
TicksPerSec == 2
MaxTime == 5
MaxTimeoutSecs == 1

\* ------------------------------------------------------ input domains
\* --threshold defaults of the two front ends
Thresholds == {-60, -40}
\* level readings fed to update_level (dB)
Levels == {-80, -60, -50}
\* --timeout values (u64 seconds)
TimeoutSecs == 0..MaxTimeoutSecs

cmd_on == "cmd_on"
cmd_off == "cmd_off"

NoCall == [level |-> 0, at |-> -1, ev |-> "none"]
NoExit == [child |-> 0, status |-> "none"]
\* the capture front end left abstract: blocks arrive as levels (UpdateLevel)
NoCapture == [pc |-> "abstract"]

VARIABLES
    switch,       \* SwitchStatus: threshold_db, timeout_s, on_trigger_last, is_on
    queue,        \* the mpsc channel's buffer (tx -> rx)
    tx_alive,     \* the Sender (owned by SwitchStatus) has not been dropped
    rx_alive,     \* the Receiver (owned by the worker closure) has not been dropped
    worker_pc,    \* "recv" | "wait" | "panicked" | "ended"
    waiting,      \* index of the child the worker is blocked in wait() on (0: none)
    children,     \* indices of spawned commands that are still running
    executed,     \* the commands spawned by the worker, in spawn order
    last_exit,    \* the most recent child exit: [child, status]
    producer_pc,  \* "ready" | "panicked"
    main_pc,      \* "active" | "deactivated" | "exited"
    now,          \* Instant::now()
    emitted,      \* history: the events accepted by tx.send, in order
    call,         \* history: the most recent update_level call [level, at, ev]
    last_above,   \* history: time of the most recent call with level >= threshold (-1: none)
    cap           \* the ALSA capture front end: selection, buffers, detector, loop position

vars == <<switch, queue, tx_alive, rx_alive, worker_pc, waiting, children,
          executed, last_exit, producer_pc, main_pc, now, emitted, call,
          last_above, cap>>

\* Duration::from_secs
from_secs(s) == s * TicksPerSec

\* SwitchStatus::new
new(threshold_db, timeout_s, t) ==
    [threshold_db |-> threshold_db,
     timeout_s |-> from_secs(timeout_s),
     on_trigger_last |-> t,
     is_on |-> FALSE]

\* variant: a rendezvous-style bounded channel, whose send blocks while an
\* event is still queued
send_bounded(q, rx, v) ==
    IF ~rx THEN [ok |-> FALSE, blocked |-> FALSE, queue |-> q]
    ELSE IF Len(q) >= 1 THEN [ok |-> FALSE, blocked |-> TRUE, queue |-> q]
    ELSE [ok |-> TRUE, blocked |-> FALSE, queue |-> Append(q, v)]

\* mpsc::Sender::send on the unbounded channel: never blocks; Err once the
\* receiver has been dropped
send(q, rx, v) ==
    IF rx THEN [ok |-> TRUE, blocked |-> FALSE, queue |-> Append(q, v)]
          ELSE [ok |-> FALSE, blocked |-> FALSE, queue |-> q]

\* variant: is_on is assigned before the send is attempted
turn_on_assign_first(sw, q, rx) ==
    LET r == send(q, rx, TRUE) IN
    IF r.blocked THEN [switch |-> sw, queue |-> q, ev |-> "none", end |-> "blocked"]
    ELSE IF ~r.ok THEN [switch |-> [sw EXCEPT !.is_on = TRUE], queue |-> q,
                        ev |-> "none", end |-> "panicked"]
    ELSE [switch |-> [sw EXCEPT !.is_on = TRUE], queue |-> r.queue,
          ev |-> "on", end |-> "done"]

\* self.tx.send(..).unwrap(); self.is_on = ..
\* the result: the switch, the channel buffer, the event sent, and how the
\* call ended ("done" | "panicked" | "blocked")
turn_on(sw, q, rx) ==
    LET r == send(q, rx, TRUE) IN
    IF r.blocked THEN [switch |-> sw, queue |-> q, ev |-> "none", end |-> "blocked"]
    ELSE IF ~r.ok THEN [switch |-> sw, queue |-> q, ev |-> "none", end |-> "panicked"]
    ELSE [switch |-> [sw EXCEPT !.is_on = TRUE], queue |-> r.queue,
          ev |-> "on", end |-> "done"]

\* variant: turning off clears the trigger time
turn_off_clears_trigger(sw, q, rx) ==
    LET r == send(q, rx, FALSE) IN
    IF r.blocked THEN [switch |-> sw, queue |-> q, ev |-> "none", end |-> "blocked"]
    ELSE IF ~r.ok THEN [switch |-> sw, queue |-> q, ev |-> "none", end |-> "panicked"]
    ELSE [switch |-> [sw EXCEPT !.is_on = FALSE, !.on_trigger_last = 0],
          queue |-> r.queue, ev |-> "off", end |-> "done"]

\* variant: the off event is sent but is_on is left set
turn_off_keeps_on(sw, q, rx) ==
    LET r == send(q, rx, FALSE) IN
    IF r.blocked THEN [switch |-> sw, queue |-> q, ev |-> "none", end |-> "blocked"]
    ELSE IF ~r.ok THEN [switch |-> sw, queue |-> q, ev |-> "none", end |-> "panicked"]
    ELSE [switch |-> sw, queue |-> r.queue, ev |-> "off", end |-> "done"]

turn_off(sw, q, rx) ==
    LET r == send(q, rx, FALSE) IN
    IF r.blocked THEN [switch |-> sw, queue |-> q, ev |-> "none", end |-> "blocked"]
    ELSE IF ~r.ok THEN [switch |-> sw, queue |-> q, ev |-> "none", end |-> "panicked"]
    ELSE [switch |-> [sw EXCEPT !.is_on = FALSE], queue |-> r.queue,
          ev |-> "off", end |-> "done"]

\* variant: the timeout comparison is >= instead of >
update_level_inclusive(sw, level, t, q, rx) ==
    IF level >= sw.threshold_db THEN
        LET sw1 == [sw EXCEPT !.on_trigger_last = t] IN
        IF ~sw1.is_on THEN turn_on(sw1, q, rx)
        ELSE [switch |-> sw1, queue |-> q, ev |-> "none", end |-> "done"]
    ELSE IF sw.is_on /\ t - sw.on_trigger_last >= sw.timeout_s THEN
        turn_off(sw, q, rx)
    ELSE [switch |-> sw, queue |-> q, ev |-> "none", end |-> "done"]

\* variant: turn_on is called without testing is_on
update_level_unguarded(sw, level, t, q, rx) ==
    IF level >= sw.threshold_db THEN
        turn_on([sw EXCEPT !.on_trigger_last = t], q, rx)
    ELSE IF sw.is_on /\ t - sw.on_trigger_last > sw.timeout_s THEN
        turn_off(sw, q, rx)
    ELSE [switch |-> sw, queue |-> q, ev |-> "none", end |-> "done"]

\* variant: a sub-threshold reading while OFF rearms the timer
update_level_rearm(sw, level, t, q, rx) ==
    IF level >= sw.threshold_db THEN
        LET sw1 == [sw EXCEPT !.on_trigger_last = t] IN
        IF ~sw1.is_on THEN turn_on(sw1, q, rx)
        ELSE [switch |-> sw1, queue |-> q, ev |-> "none", end |-> "done"]
    ELSE IF sw.is_on /\ t - sw.on_trigger_last > sw.timeout_s THEN
        turn_off(sw, q, rx)
    ELSE [switch |-> [sw EXCEPT !.on_trigger_last = IF sw.is_on THEN @ ELSE t],
          queue |-> q, ev |-> "none", end |-> "done"]

\* variant: while ON, a sub-threshold reading inside the timeout rearms the timer
update_level_rearm_on(sw, level, t, q, rx) ==
    IF level >= sw.threshold_db THEN
        LET sw1 == [sw EXCEPT !.on_trigger_last = t] IN
        IF ~sw1.is_on THEN turn_on(sw1, q, rx)
        ELSE [switch |-> sw1, queue |-> q, ev |-> "none", end |-> "done"]
    ELSE IF sw.is_on /\ t - sw.on_trigger_last > sw.timeout_s THEN
        turn_off(sw, q, rx)
    ELSE [switch |-> [sw EXCEPT !.on_trigger_last = IF sw.is_on THEN t ELSE @],
          queue |-> q, ev |-> "none", end |-> "done"]

\* SwitchStatus::update_level, with t the value Instant::now() returns
update_level(sw, level, t, q, rx) ==
    IF level >= sw.threshold_db THEN
        LET sw1 == [sw EXCEPT !.on_trigger_last = t] IN
        IF ~sw1.is_on THEN turn_on(sw1, q, rx)
        ELSE [switch |-> sw1, queue |-> q, ev |-> "none", end |-> "done"]
    ELSE IF sw.is_on /\ t - sw.on_trigger_last > sw.timeout_s THEN
        turn_off(sw, q, rx)
    ELSE [switch |-> sw, queue |-> q, ev |-> "none", end |-> "done"]

\* SwitchStatus::is_on
is_on == switch.is_on

\* variant: the receiver keeps only the latest state and discards the others
recv_latest(q) == [state |-> q[Len(q)], rest |-> <<>>]

\* `for state in rx`: the receiver yields the oldest queued state
recv(q) == [state |-> Head(q), rest |-> Tail(q)]

\* the command the worker runs for a received state
cmd_for(state) == IF state THEN cmd_on ELSE cmd_off

\* variant: the worker does not wait for the command it spawned
after_spawn_nowait == "recv"

\* where the worker goes after a successful spawn: it blocks in wait()
after_spawn == "wait"

\* variant: a nonzero exit status is treated like a failure
after_wait_strict(status) == IF status \in {"waiterr", "nonzero"} THEN "panicked" ELSE "recv"

\* where the worker goes when wait() returns
after_wait(status) == IF status = "waiterr" THEN "panicked" ELSE "recv"

Init ==
    /\ \E th \in Thresholds, to \in TimeoutSecs : switch = new(th, to, 0)
    /\ queue = <<>>
    /\ tx_alive = TRUE
    /\ rx_alive = TRUE
    /\ worker_pc = "recv"
    /\ waiting = 0
    /\ children = {}
    /\ executed = <<>>
    /\ last_exit = NoExit
    /\ producer_pc = "ready"
    /\ main_pc = "active"
    /\ now = 0
    /\ emitted = <<>>
    /\ call = NoCall
    /\ last_above = -1
    /\ cap = NoCapture

\* the monotonic clock advances
Tick ==
    /\ now < MaxTime
    /\ now' = now + 1
    /\ UNCHANGED <<switch, queue, tx_alive, rx_alive, worker_pc, waiting,
                   children, executed, last_exit, producer_pc, main_pc,
                   emitted, call, last_above>>
    /\ UNCHANGED cap

\* one processed block: process_buf calls switch.update_level(db)
UpdateLevel(level) ==
    /\ main_pc = "active"
    /\ producer_pc = "ready"
    /\ LET r == update_level(switch, level, now, queue, rx_alive) IN
        /\ switch' = r.switch
        /\ queue' = r.queue
        /\ producer_pc' = IF r.end = "done" THEN "ready" ELSE r.end
        /\ emitted' = IF r.ev = "none" THEN emitted ELSE Append(emitted, r.ev = "on")
        /\ call' = [level |-> level, at |-> now, ev |-> r.ev]
    /\ last_above' = IF level >= switch.threshold_db THEN now ELSE last_above
    /\ UNCHANGED <<tx_alive, rx_alive, worker_pc, waiting, children, executed,
                   last_exit, main_pc, now>>
    /\ UNCHANGED cap

\* the worker receives the next state and spawns its command
WorkerRun(spawn_ok) ==
    /\ main_pc # "exited"
    /\ worker_pc = "recv"
    /\ rx_alive
    /\ queue # <<>>
    /\ IF spawn_ok
       THEN /\ executed' = Append(executed, cmd_for(recv(queue).state))
            /\ children' = children \cup {Len(executed) + 1}
            /\ waiting' = IF after_spawn = "wait" THEN Len(executed) + 1 ELSE 0
            /\ worker_pc' = after_spawn
            /\ queue' = recv(queue).rest
            /\ rx_alive' = rx_alive
       ELSE \* expect("Unable to run command") panics; unwinding drops rx
            /\ worker_pc' = "panicked"
            /\ rx_alive' = FALSE
            /\ queue' = <<>>
            /\ UNCHANGED <<executed, children, waiting>>
    /\ UNCHANGED <<switch, tx_alive, last_exit, producer_pc, main_pc, now,
                   emitted, call, last_above>>
    /\ UNCHANGED cap

\* the iteration over rx ends once the queue is empty and the sender is gone
WorkerEnd ==
    /\ main_pc # "exited"
    /\ worker_pc = "recv"
    /\ rx_alive
    /\ queue = <<>>
    /\ ~tx_alive
    /\ worker_pc' = "ended"
    /\ rx_alive' = FALSE
    /\ UNCHANGED <<switch, queue, tx_alive, waiting, children, executed,
                   last_exit, producer_pc, main_pc, now, emitted, call,
                   last_above>>
    /\ UNCHANGED cap

\* a running command exits with a zero or nonzero status; a worker blocked in
\* wait() on it resumes with Ok(status), which unwrap() accepts
ChildExit(i, status) ==
    /\ i \in children
    /\ children' = children \ {i}
    /\ last_exit' = [child |-> i, status |-> status]
    /\ IF waiting = i /\ worker_pc = "wait" /\ main_pc # "exited"
       THEN /\ worker_pc' = after_wait(status)
            /\ waiting' = 0
            /\ rx_alive' = (after_wait(status) # "panicked")
            /\ queue' = IF after_wait(status) = "panicked" THEN <<>> ELSE queue
       ELSE UNCHANGED <<worker_pc, waiting, rx_alive, queue>>
    /\ UNCHANGED <<switch, tx_alive, executed, producer_pc, main_pc, now,
                   emitted, call, last_above>>
    /\ UNCHANGED cap

\* wait() itself returns Err: unwrap() panics and unwinding drops rx
WaitFails ==
    /\ main_pc # "exited"
    /\ worker_pc = "wait"
    /\ worker_pc' = after_wait("waiterr")
    /\ waiting' = 0
    /\ rx_alive' = (after_wait("waiterr") # "panicked")
    /\ queue' = IF after_wait("waiterr") = "panicked" THEN <<>> ELSE queue
    /\ UNCHANGED <<switch, tx_alive, children, executed, last_exit, producer_pc,
                   main_pc, now, emitted, call, last_above>>
    /\ UNCHANGED cap

\* jack_plugin main: the user presses return, the client is deactivated and the
\* process closure (owning the switch and its Sender) is dropped
Deactivate ==
    /\ main_pc = "active"
    /\ main_pc' = "deactivated"
    /\ tx_alive' = FALSE
    /\ UNCHANGED <<switch, queue, rx_alive, worker_pc, waiting, children,
                   executed, last_exit, producer_pc, now, emitted, call,
                   last_above>>
    /\ UNCHANGED cap

\* main returns: the process exits and its threads with it
Exit ==
    /\ main_pc = "deactivated"
    /\ main_pc' = "exited"
    /\ UNCHANGED <<switch, queue, tx_alive, rx_alive, worker_pc, waiting,
                   children, executed, last_exit, producer_pc, now, emitted,
                   call, last_above>>
    /\ UNCHANGED cap

Next ==
    \/ Tick
    \/ \E level \in Levels : UpdateLevel(level)
    \/ WorkerRun(TRUE)
    \/ WorkerRun(FALSE)
    \/ WorkerEnd
    \/ \E i \in children, status \in {"zero", "nonzero"} : ChildExit(i, status)
    \/ WaitFails
    \/ Deactivate
    \/ Exit

Spec == Init /\ [][Next]_vars

\* the worker thread is scheduled whenever it can run, and a spawned command
\* that is waited on eventually exits
LiveSpec ==
    /\ Spec
    /\ WF_vars(WorkerRun(TRUE) \/ WorkerRun(FALSE))
    /\ WF_vars(WorkerEnd)
    /\ WF_vars(\E i \in children, status \in {"zero", "nonzero"} : ChildExit(i, status))

\* a block whose level is below the threshold
SilentBlock == \E level \in Levels : level < switch.threshold_db /\ UpdateLevel(level)

\* the clock keeps advancing and the capture loop keeps delivering blocks: a
\* sub-threshold block that would change the switch is eventually processed
\* (the levels themselves are the environment's choice)
SwitchLiveSpec ==
    /\ Spec
    /\ WF_vars(Tick)
    /\ WF_vars(SilentBlock)

\* ------------------------------------------------- the ALSA capture front end
\* --buffer-size: frames per block, and the detector's window size
BufSize == 2
\* entries in the --channels list
MaxTokens == 2
\* blocks read per run
MaxBlocks == 2

\* the comma-separated entries of --channels
Tokens == {"", "0", "1", "2"}
Selections == UNION {[1..n -> Tokens] : n \in 1..MaxTokens}
\* --bits: 16 selects the i16 loop, anything else the i32 loop
BitsValues == {16, 32}
\* raw samples delivered by readi
Samples16 == {-200, 0, 100}
Samples32 == {-33554432, 0, 16777216}
SamplesOf(bits) == IF bits = 16 THEN Samples16 ELSE Samples32

\* s.parse::<usize>(); -1 stands for Err
parse(tok) ==
    CASE tok = "0" -> 0
      [] tok = "1" -> 1
      [] tok = "2" -> 2
      [] OTHER -> -1

\* Iterator::max
Max(S) == CHOOSE m \in S : \A x \in S : x <= m

\* integer division of i32/i64, truncating toward zero
tdiv(a, b) == IF a >= 0 THEN a \div b ELSE -((-a) \div b)

\* to_sample::<i16>() of an i32: the upper 16 bits (arithmetic shift)
i32_to_i16(s) == s \div 65536

\* to_sample::<i32>() of an i16: shifted into the upper 16 bits
i16_to_i32(s) == s * 65536

\* frame i of an interleaved buffer of n channels
frame_at(buf, i, n) == [c \in 1..n |-> buf[(i - 1) * n + c]]

\* val += sample of channel c, for the channels c <= upto that are in keep
RECURSIVE accumulate(_, _, _)
accumulate(frame, keep, upto) ==
    IF upto = 0 THEN 0
    ELSE accumulate(frame, keep, upto - 1) + (IF upto \in keep THEN frame[upto] ELSE 0)

\* the 16-bit de-interleave of one frame
mix16(frame, channels, channel_count) ==
    i16_to_i32(i32_to_i16(tdiv(accumulate(frame, channels, channel_count), channel_count)))

\* the 32-bit de-interleave of one frame: every channel is summed
mix32(frame, channels, channel_count) ==
    tdiv(accumulate(frame, 1..channel_count, channel_count), channel_count)

de_interleave(bits, rec_buf, channels, channel_count) ==
    [i \in 1..BufSize |->
        IF bits = 16 THEN mix16(frame_at(rec_buf, i, channel_count), channels, channel_count)
                     ELSE mix32(frame_at(rec_buf, i, channel_count), channels, channel_count)]

\* i32 sample to float, in units of 2^-7 of full scale
to_float(s) == tdiv(s, 16777216)

\* the largest magnitude of a sample as a float
AmpBound == Max({to_float(s) : s \in Samples32} \cup {-to_float(s) : s \in Samples32})

\* f32::sqrt, rounded down to a whole unit
isqrt(n) == CHOOSE r \in 0..AmpBound : r * r <= n /\ (r + 1) * (r + 1) > n

\* common::ATTACK and common::RELEASE as smoothing gains exp(-1/frames),
\* in units of 1/GainDen
GainDen == 2
AttackGain == 0
ReleaseGain == 1

\* ring_buffer::Fixed::from(vec![[0.0]; buf_size])
ring_buffer_new == [i \in 1..BufSize |-> 0]

\* envelope::Detector::rms(ring_buffer, attack, release)
detector_rms(ring_buffer) == [window |-> ring_buffer, sum |-> 0, env |-> 0]

\* Detector::next: push the square, windowed rms, attack/release smoothing
detector_next(d, x) ==
    LET sq == x * x
        sum == d.sum - d.window[1] + sq
        rms == isqrt(sum \div Len(d.window))
        gain == IF d.env < rms THEN AttackGain ELSE ReleaseGain
    IN [window |-> Append(Tail(d.window), sq),
        sum |-> sum,
        env |-> rms + tdiv(gain * (d.env - rms), GainDen)]

\* frame.detect_envelope(detector).until_exhausted(): fold the block in
RECURSIVE detect_envelope(_, _, _)
detect_envelope(d, buf, upto) ==
    IF upto = 0 THEN d
    ELSE detector_next(detect_envelope(d, buf, upto - 1), to_float(buf[upto]))

\* common::to_db: 20 * log10(amplitude), with a finite sentinel for 0
DbOfZero == -1000
to_db(u) ==
    IF u <= 0 THEN DbOfZero
    ELSE IF u = 1 THEN -42
    ELSE IF u = 2 THEN -36
    ELSE IF u = 3 THEN -33
    ELSE -30

\* the detector a block is processed with: built from a clone of the startup
\* ring buffer, whatever the previous block left
detector_for_block(ring_buffer, previous) == detector_rms(ring_buffer)

\* process_buf up to the level: the detector at the start and at the end of
\* the block and the level passed to update_level
process_buf(buf, ring_buffer, previous) ==
    LET d0 == detector_for_block(ring_buffer, previous)
        d1 == detect_envelope(d0, buf, Len(buf))
    IN [det_start |-> d0, det_end |-> d1, db |-> to_db(d1.env)]

CaptureStart ==
    [pc |-> "start", bits |-> 0, channels |-> {}, channel_count |-> 0,
     rec_buf |-> <<>>, mono |-> <<>>, ring_buffer |-> <<>>,
     det_start |-> detector_rms(<<>>), det_end |-> detector_rms(<<>>),
     read |-> "none", reads |-> 0, blocks |-> 0, db |-> DbOfZero]

CaptureInit ==
    /\ \E th \in Thresholds, to \in TimeoutSecs : switch = new(th, to, 0)
    /\ queue = <<>>
    /\ tx_alive = TRUE
    /\ rx_alive = TRUE
    /\ worker_pc = "recv"
    /\ waiting = 0
    /\ children = {}
    /\ executed = <<>>
    /\ last_exit = NoExit
    /\ producer_pc = "ready"
    /\ main_pc = "active"
    /\ now = 0
    /\ emitted = <<>>
    /\ call = NoCall
    /\ last_above = -1
    /\ cap = CaptureStart

\* main up to the capture loop: the channel list is parsed, the device is
\* configured with channel_count channels, the buffers are allocated
Startup(tokens, bits) ==
    /\ cap.pc = "start"
    /\ LET parsed == {parse(tokens[i]) : i \in DOMAIN tokens} IN
       IF -1 \in parsed
       THEN \* parse().unwrap() panics
            cap' = [cap EXCEPT !.pc = "fatal", !.bits = bits, !.channels = parsed]
       ELSE IF Max(parsed) = 0
       THEN \* set_channels(0).unwrap() panics
            cap' = [cap EXCEPT !.pc = "fatal", !.bits = bits, !.channels = parsed]
       ELSE cap' = [cap EXCEPT !.pc = "capture", !.bits = bits,
                               !.channels = parsed,
                               !.channel_count = Max(parsed),
                               !.rec_buf = [i \in 1..(BufSize * Max(parsed)) |-> 0],
                               !.mono = [i \in 1..BufSize |-> 0],
                               !.ring_buffer = ring_buffer_new,
                               !.det_start = detector_rms(ring_buffer_new),
                               !.det_end = detector_rms(ring_buffer_new)]
    /\ UNCHANGED <<switch, queue, tx_alive, rx_alive, worker_pc, waiting, children,
                   executed, last_exit, producer_pc, main_pc, now, emitted, call,
                   last_above>>

\* de-interleave, process_buf and update_level on the record buffer buf, at
\* time t
ProcessBlock(buf, read, t) ==
    \E mono \in {de_interleave(cap.bits, buf, cap.channels, cap.channel_count)} :
    \E p \in {process_buf(mono, cap.ring_buffer, cap.det_end)} :
    \E r \in {update_level(switch, p.db, t, queue, rx_alive)} :
       /\ cap' = [cap EXCEPT !.rec_buf = buf, !.mono = mono, !.read = read,
                             !.reads = @ + 1, !.blocks = @ + 1,
                             !.det_start = p.det_start, !.det_end = p.det_end,
                             !.db = p.db,
                             !.pc = IF r.end = "done" THEN "capture" ELSE "crashed"]
       /\ switch' = r.switch
       /\ queue' = r.queue
       /\ producer_pc' = IF r.end = "done" THEN "ready" ELSE r.end
       /\ emitted' = IF r.ev = "none" THEN emitted ELSE Append(emitted, r.ev = "on")
       /\ call' = [level |-> p.db, at |-> t, ev |-> r.ev]
       /\ last_above' = IF p.db >= switch.threshold_db THEN t ELSE last_above

\* one iteration of the capture loop: readi blocks for dt ticks and succeeds
\* with the block data
CaptureBlockOk(data, dt) ==
    /\ cap.pc = "capture"
    /\ cap.reads < MaxBlocks
    /\ now + dt <= MaxTime
    /\ now' = now + dt
    /\ ProcessBlock(data, "ok", now + dt)
    /\ UNCHANGED <<tx_alive, rx_alive, worker_pc, waiting, children, executed,
                   last_exit, main_pc>>

\* one iteration of the capture loop whose readi fails: the 16-bit loop prints
\* the error and goes on with the buffer as it is; the 32-bit loop unwraps
CaptureBlockErr(dt) ==
    /\ cap.pc = "capture"
    /\ cap.reads < MaxBlocks
    /\ now + dt <= MaxTime
    /\ now' = now + dt
    /\ IF cap.bits = 16
       THEN ProcessBlock(cap.rec_buf, "err", now + dt)
       ELSE /\ cap' = [cap EXCEPT !.pc = "crashed", !.read = "err", !.reads = @ + 1]
            /\ producer_pc' = "panicked"
            /\ UNCHANGED <<switch, queue, emitted, call, last_above>>
    /\ UNCHANGED <<tx_alive, rx_alive, worker_pc, waiting, children, executed,
                   last_exit, main_pc>>

CaptureNext ==
    \/ \E tokens \in Selections, bits \in BitsValues : Startup(tokens, bits)
    \/ \E data \in [1..(BufSize * cap.channel_count) -> SamplesOf(cap.bits)], dt \in 0..1 :
          CaptureBlockOk(data, dt)
    \/ \E dt \in 0..1 : CaptureBlockErr(dt)

CaptureSpec == CaptureInit /\ [][CaptureNext]_vars

\* ------------------------------------------------------------- properties

threshold_db == switch.threshold_db
timeout == switch.timeout_s

\* a step that is an update_level call
IsCall == call' # call

\* the step enqueues an off event
OffEvent == emitted' # emitted /\ ~emitted'[Len(emitted')]

\* C1: the switch goes ON -> OFF (and an event false is sent) only at a call
\* whose level is strictly below threshold_db, made strictly more than timeout
\* after the most recent call with level >= threshold_db
C1_OffOnlyAfterTimeout ==
    [][ (OffEvent \/ (is_on /\ ~is_on')) =>
            /\ IsCall
            /\ is_on /\ ~is_on'
            /\ emitted' = Append(emitted, FALSE)
            /\ call'.level < threshold_db
            /\ call'.at = now
            /\ last_above >= 0
            /\ last_above' = last_above
            /\ call'.at - last_above > timeout ]_vars

\* an off event sent at the first tick past a nonzero timeout
C1_Witness ==
    /\ call.ev = "off"
    /\ ~is_on
    /\ timeout > 0
    /\ call.at - last_above = timeout + 1

\* C2: the switch starts OFF, and a call made while OFF with level >=
\* threshold_db sets is_on and sends exactly one event true, whatever the time
C2_OnImmediately ==
    /\ ~is_on
    /\ [][ (IsCall /\ ~is_on /\ call'.level >= threshold_db) =>
              /\ is_on'
              /\ emitted' = Append(emitted, TRUE)
              /\ call'.ev = "on" ]_vars

\* C3: a call with level >= threshold_db made while ON sends no event, leaves
\* is_on set and only sets on_trigger_last to the time of the call
C3_IdempotentWhileOn ==
    [][ (IsCall /\ is_on /\ call'.level >= threshold_db) =>
            /\ switch' = [switch EXCEPT !.on_trigger_last = now]
            /\ is_on'
            /\ emitted' = emitted
            /\ queue' = queue
            /\ call'.ev = "none"
            /\ producer_pc' = producer_pc ]_vars

\* the timer was rearmed by a later reading at or above threshold while ON
C3_Witness ==
    /\ is_on
    /\ call.ev = "none"
    /\ call.level >= threshold_db
    /\ call.at >= 2
    /\ switch.on_trigger_last = call.at
    /\ Len(emitted) = 1

\* C4: a step sends at most one event, sends one exactly when is_on changes,
\* and the event is the new value of is_on
C4_OneEventPerTransition ==
    [][ /\ Len(emitted') <= Len(emitted) + 1
        /\ (emitted' # emitted) <=> (is_on' # is_on)
        /\ (emitted' # emitted) =>
              /\ emitted' = Append(emitted, is_on')
              /\ queue' = Append(queue, is_on')
              /\ call'.ev = (IF is_on' THEN "on" ELSE "off")
        /\ (IsCall /\ emitted' = emitted) => (queue' = queue /\ call'.ev = "none") ]_vars

\* both transitions have happened, each with its event
C4_Witness ==
    /\ Len(emitted) >= 2
    /\ call.ev = "off"
    /\ ~is_on

\* the events the worker has consumed so far, mapped to their commands
CommandsOf(evs, n) == [i \in 1..n |-> IF evs[i] THEN "cmd_on" ELSE "cmd_off"]

\* C5: the worker spawns the commands in the order the events were sent, each
\* event mapped to cmd_on (true) or cmd_off (false), and at most one command
\* runs at a time: the next is not spawned before the previous one has exited
C5_FifoOneAtATime ==
    /\ Len(executed) <= Len(emitted)
    /\ executed = CommandsOf(emitted, Len(executed))
    /\ Cardinality(children) <= 1
    /\ children # {} => children = {Len(executed)}
    /\ (worker_pc = "wait" /\ main_pc # "exited") => children = {waiting}

\* the events true, false, true were sent in a burst while the first command
\* ran, and the third command is now running
C5_Witness ==
    /\ Len(executed) = 3
    /\ children = {3}
    /\ Len(emitted) = 3
    /\ now = 1

\* the most events the clock bound allows: one on at each tick, one off
\* between two of them
MaxEvents == 2 * MaxTime + 1

\* every event sent is eventually executed, as the k-th command for the k-th event
EveryEventExecuted ==
    \A k \in 1..MaxEvents :
        [](Len(emitted) >= k => <>(Len(executed) >= k /\ executed[k] = CommandsOf(emitted, k)[k]))

\* C6 as stated: provided no spawn (or wait) fails and every command exits,
\* every event sent is eventually executed exactly once
C6_AllExecuted ==
    /\ [](Len(executed) <= Len(emitted))
    /\ ([](worker_pc # "panicked")) => EveryEventExecuted

\* C6, amended: the same, provided also that the process does not exit first
C6_AllExecutedWhileAlive ==
    /\ [](Len(executed) <= Len(emitted))
    /\ ([](worker_pc # "panicked" /\ main_pc # "exited")) => EveryEventExecuted

\* events were queued faster than the commands completed, and all of them
\* have been executed
C6_Witness ==
    /\ Len(emitted) >= 3
    /\ Len(executed) = Len(emitted)
    /\ children = {}
    /\ call.at = 1

\* the transition rules ask this call for an event
NeedsEvent(level) ==
    \/ level >= threshold_db /\ ~is_on
    \/ level < threshold_db /\ is_on /\ now - switch.on_trigger_last > timeout

\* C7: while the receiver exists, a call that has to send an event completes
\* with the event appended to the queue, whatever the worker is doing and
\* however many events are queued
C7_ProducerNeverWaits ==
    /\ [](producer_pc # "blocked")
    /\ [][ (IsCall /\ rx_alive /\ NeedsEvent(call'.level)) =>
              /\ producer_pc' = "ready"
              /\ call'.ev # "none"
              /\ queue' = Append(queue, is_on') ]_vars

\* an event was enqueued behind two others while the worker was blocked in a
\* running command
C7_Witness ==
    /\ worker_pc = "wait"
    /\ children # {}
    /\ Len(queue) >= 3
    /\ call.ev # "none"
    /\ producer_pc = "ready"

\* C8 as stated: after a spawn failure the worker runs nothing more, while the
\* producer's calls still complete and apply the transition rules
C8_ProducerSurvivesWorker ==
    /\ [](producer_pc = "ready")
    /\ [][ worker_pc = "panicked" => (worker_pc' = "panicked" /\ executed' = executed) ]_vars
    /\ [][ (IsCall /\ worker_pc = "panicked") =>
              (is_on' = IF NeedsEvent(call'.level) THEN ~is_on ELSE is_on) ]_vars

\* C9: when a command exits with a nonzero status the worker stays alive with
\* its receiver and queue intact, and when events are queued it can run the next
C9_NonzeroExitIgnored ==
    /\ [][ (last_exit' # last_exit /\ last_exit'.status = "nonzero"
              /\ worker_pc = "wait" /\ waiting = last_exit'.child /\ main_pc # "exited") =>
              /\ worker_pc' = "recv"
              /\ rx_alive'
              /\ queue' = queue ]_vars
    /\ []((last_exit.status = "nonzero" /\ worker_pc = "recv" /\ main_pc # "exited" /\ queue # <<>>)
              => ENABLED WorkerRun(TRUE))

\* the command after one that exited nonzero has been spawned
C9_Witness ==
    /\ last_exit.status = "nonzero"
    /\ Len(executed) > last_exit.child
    /\ worker_pc = "wait"

\* C10: a call with level < threshold_db made while OFF changes no field of
\* the switch and sends no event; before the first reading at or above
\* threshold the switch is OFF, as constructed
C10_BelowWhileOffChangesNothing ==
    /\ [](last_above = -1 =>
              (~is_on /\ emitted = <<>> /\ queue = <<>> /\ switch.on_trigger_last = 0))
    /\ [][ (IsCall /\ ~is_on /\ call'.level < threshold_db) =>
              /\ switch' = switch
              /\ emitted' = emitted
              /\ queue' = queue
              /\ call'.ev = "none" ]_vars

\* sub-threshold readings only, long past the timeout, and still OFF
C10_Witness ==
    /\ call # NoCall
    /\ last_above = -1
    /\ call.at > timeout + 1
    /\ threshold_db = -60
    /\ ~is_on

\* C15: threshold_db and timeout never change, last_trigger_time never
\* decreases, and it changes only in an update_level call whose level is
\* >= threshold_db
C15_SwitchFieldInvariants ==
    [][ /\ switch'.threshold_db = switch.threshold_db
        /\ switch'.timeout_s = switch.timeout_s
        /\ switch'.on_trigger_last >= switch.on_trigger_last
        /\ switch'.on_trigger_last # switch.on_trigger_last =>
              /\ IsCall
              /\ call'.level >= threshold_db
              /\ switch'.on_trigger_last = now
        /\ (IsCall /\ call'.level < threshold_db) =>
              switch'.on_trigger_last = switch.on_trigger_last ]_vars

\* the switch was turned off by a sub-threshold call that left the trigger
\* time of the earlier rearming in place
C15_Witness ==
    /\ call.ev = "off"
    /\ switch.on_trigger_last = last_above
    /\ switch.on_trigger_last > 0
    /\ call.at > switch.on_trigger_last

\* C18: the events sent alternate true, false, true, ... starting with true,
\* and so do the commands the worker runs, starting with cmd_on
C18_EventsAlternate ==
    /\ \A i \in 1..Len(emitted) : emitted[i] = (i % 2 = 1)
    /\ \A i \in 1..Len(executed) : executed[i] = (IF i % 2 = 1 THEN "cmd_on" ELSE "cmd_off")

\* on, off, on were sent and run
C18_Witness ==
    /\ emitted = <<TRUE, FALSE, TRUE>>
    /\ executed = <<"cmd_on", "cmd_off", "cmd_on">>

\* the boolean of the most recently enqueued event, false if there is none
LastEvent == IF emitted = <<>> THEN FALSE ELSE emitted[Len(emitted)]

\* C19: between calls is_on equals the most recently enqueued event (false if
\* none), and a call whose enqueue fails leaves is_on unchanged
C19_IsOnTracksLastEvent ==
    /\ [](is_on = LastEvent)
    /\ [][ (IsCall /\ producer_pc' = "panicked") =>
              (is_on' = is_on /\ emitted' = emitted) ]_vars

\* a send failed after the worker died, with events sent before it
C19_Witness ==
    /\ producer_pc = "panicked"
    /\ emitted = <<TRUE, FALSE>>
    /\ ~is_on
    /\ call.level >= threshold_db

\* from some point on every reading is below threshold, the producer keeps
\* calling, and the clock bound leaves room for the timeout to run out
SilenceFromSomePoint ==
    /\ <>[](call.level < threshold_db /\ last_above + timeout < MaxTime)
    /\ [](main_pc = "active" /\ producer_pc = "ready")

\* C11: once every reading stays below threshold while calls and time go on,
\* the switch ends up OFF for good; the event false is sent at the first
\* completed call made more than timeout after the last reading at or above
\* threshold, not before, and sub-threshold calls while OFF send nothing more
C11_EventuallyOff ==
    /\ SilenceFromSomePoint => <>[](~is_on /\ LastEvent = FALSE)
    /\ [][ (IsCall /\ is_on /\ call'.level < threshold_db /\ producer_pc' = "ready") =>
              ((now - last_above > timeout) <=>
                  (call'.ev = "off" /\ ~is_on' /\ emitted' = Append(emitted, FALSE))) ]_vars
    /\ [][ (IsCall /\ ~is_on /\ call'.level < threshold_db) =>
              (emitted' = emitted /\ ~is_on') ]_vars

\* the switch went off after the timeout and a later sub-threshold call sent
\* nothing more
C11_Witness ==
    /\ ~is_on
    /\ emitted = <<TRUE, FALSE>>
    /\ call.level < threshold_db
    /\ call.ev = "none"
    /\ timeout > 0
    /\ call.at > last_above + timeout + 1

\* ------------------------------------------------ capture front end claims

\* a block has been read successfully and de-interleaved
BlockMixed == cap.pc \in {"capture", "crashed"} /\ cap.blocks >= 1 /\ cap.read = "ok"

\* the selection names channels of the frame only
ValidSelection(channels, n) == channels # {} /\ channels \subseteq 1..n

\* the arithmetic mean of the selected channels of a frame
MeanOfSelected(frame, channels) ==
    tdiv(accumulate(frame, channels, Len(frame)), Cardinality(channels))

\* a sample value v as the mono output presents it: as it is, or (16-bit
\* path) in the i32 sample format
Presents(out, v, bits) == out = v \/ (bits = 16 /\ out = i16_to_i32(v))

\* C12: for a valid selection S the mono output of every frame is the mean of
\* exactly the channels in S, on the 16-bit and on the 32-bit path
C12_MixIsMeanOfSelected ==
    (BlockMixed /\ ValidSelection(cap.channels, cap.channel_count)) =>
        \A i \in 1..BufSize :
            Presents(cap.mono[i],
                     MeanOfSelected(frame_at(cap.rec_buf, i, cap.channel_count), cap.channels),
                     cap.bits)

\* C13: a frame whose channels all hold V is mixed to V exactly (0 for all
\* zero), on the 16-bit and on the 32-bit path
C13_EqualChannelsGiveV ==
    BlockMixed =>
        \A i \in 1..BufSize :
            LET frame == frame_at(cap.rec_buf, i, cap.channel_count) IN
            (\A c \in 1..cap.channel_count : frame[c] = frame[1]) =>
                Presents(cap.mono[i], frame[1], cap.bits)

\* C14: a block whose read fails is skipped, so neither the detector nor the
\* switch sees it, and the capture loop goes on
C14_FailedReadSkipped ==
    [][ (cap'.reads # cap.reads /\ cap'.read = "err") =>
            /\ cap'.pc = "capture"
            /\ cap'.blocks = cap.blocks
            /\ cap'.det_end = cap.det_end
            /\ call' = call
            /\ switch' = switch ]_vars

\* C16: the detector state a block starts from is the state the previous
\* block left (the state created at startup for the first block)
C16_DetectorStateCarried ==
    [][ cap'.blocks # cap.blocks => cap'.det_start = cap.det_end ]_vars

\* the selection is empty or names an index outside 1..n: 0, or an entry that
\* is no number
InvalidSelection(channels) ==
    channels = {} \/ \E c \in channels : c < 1 \/ c > Max(channels)

\* C17: an invalid channel selection is fatal at startup, before any block is
\* processed, and the selection never makes the processing of a block fail
C17_InvalidSelectionFatal ==
    /\ [][ (cap.pc = "start" /\ cap'.pc # "start" /\ InvalidSelection(cap'.channels)) =>
              cap'.pc = "fatal" ]_vars
    /\ [](cap.pc = "crashed" => cap.read = "err")

====
